---- MODULE Spec2Model ----
(***************************************************************************)
(* State-machine model of nass_quickstats_remote_provider/boson/provider.py *)
(* (USDA NASS QuickStats remote provider).                                  *)
(*                                                                          *)
(* State: the two module-level boundary tables (counties, states) and the   *)
(* record of the last call made on the provider object with its outcome.    *)
(* Every public method is one action; an action is the whole call.          *)
(*                                                                          *)
(* Abstractions:                                                            *)
(*  - a geometry is the set of lattice points of a small grid it covers     *)
(*    (closed shapes, so touching shapes intersect, as in shapely);         *)
(*  - a text value that the code strips is a sequence of characters;        *)
(*  - a Python exception is the name of its class in ret.outcome.           *)
(***************************************************************************)
EXTENDS Integers, Sequences, FiniteSets, TLC

VARIABLES counties, states, call, ret

vars == <<counties, states, call, ret>>

(* ------------------------------ bounds --------------------------------- *)

\* Grid coordinates are 0..MaxCoord.
MaxCoord == 2

\* Longest coordinate list handed in as a bbox.
MaxBBoxLen == 6

\* Number of calendar years a datetime argument can name.
MaxYearSpan == 3

(* ----------------------------- geometry -------------------------------- *)

Coord == 0..MaxCoord

Grid == Coord \X Coord

Min(a, b) == IF a <= b THEN a ELSE b

Max(a, b) == IF a >= b THEN a ELSE b

\* shapely.geometry.box(minx, miny, maxx, maxy): the closed rectangle with
\* these corners (the corner order only affects the ring's orientation).
box(minx, miny, maxx, maxy) ==
    {p \in Grid : /\ Min(minx, maxx) <= p[1] /\ p[1] <= Max(minx, maxx)
                  /\ Min(miny, maxy) <= p[2] /\ p[2] <= Max(miny, maxy)}

\* shapely's binary predicate a.intersects(b).
shape_intersects(a, b) == a \cap b # {}

(* ------------------------------- text ---------------------------------- *)

RECURSIVE lstrip(_)
lstrip(s) == IF s # <<>> /\ Head(s) = " " THEN lstrip(Tail(s)) ELSE s

RECURSIVE rstrip(_)
rstrip(s) ==
    IF s # <<>> /\ s[Len(s)] = " " THEN rstrip(SubSeq(s, 1, Len(s) - 1)) ELSE s

\* pandas Series.str.strip() on one value.
str_strip(s) == rstrip(lstrip(s))

(* -------------------------- boundary tables ---------------------------- *)

\* A data frame: the name of its index and its rows in order.  A frame that
\* intersects() hands out also records whether it shares its data with the
\* table it was taken from (shared) and which table rows it holds (idx).

CA == <<"0", "6">>
CApad == <<"0", "6", " ">>
NV == <<"3", "2">>
NVpad == <<" ", "3", "2">>
GU == <<"6", "6">>

CountyRowsA ==
    << [COUNTYNS |-> 3, NAME |-> "Alameda", STATEFP |-> CApad,
        geometry |-> box(0, 0, 0, 1)],
       [COUNTYNS |-> 1, NAME |-> "Santa Clara", STATEFP |-> CA,
        geometry |-> box(0, 0, 1, 0)],
       [COUNTYNS |-> 2, NAME |-> "Washoe", STATEFP |-> NVpad,
        geometry |-> box(1, 1, 1, 1)],
       [COUNTYNS |-> 4, NAME |-> "Guam", STATEFP |-> GU,
        geometry |-> box(MaxCoord, MaxCoord, MaxCoord, MaxCoord)] >>

CountyRowsB ==
    << [COUNTYNS |-> 2, NAME |-> "Orange", STATEFP |-> NV,
        geometry |-> box(1, 0, 1, 1)],
       [COUNTYNS |-> 1, NAME |-> "Orange", STATEFP |-> CApad,
        geometry |-> box(0, 0, 0, 1)] >>

StateRowsA ==
    << [STATEFP |-> CA, NAME |-> "California",
        geometry |-> box(0, 0, 0, 1) \cup box(0, 0, 1, 0)],
       [STATEFP |-> NV, NAME |-> "Nevada", geometry |-> box(1, 1, 1, 1)],
       [STATEFP |-> GU, NAME |-> "Guam",
        geometry |-> box(MaxCoord, MaxCoord, MaxCoord, MaxCoord)] >>

\* A states file with padded codes and a generalised outline of Nevada that
\* misses part of one of its counties.
StateRowsB ==
    << [STATEFP |-> NVpad, NAME |-> "Nevada", geometry |-> box(1, 1, 1, 1)],
       [STATEFP |-> CApad, NAME |-> "California",
        geometry |-> box(0, 0, 0, 1)] >>

\* Boundaries.__init__: the frame read from the parquet file.
Boundaries(rows) == [index |-> "RangeIndex", rows |-> rows]

CountyTables == {Boundaries(CountyRowsA), Boundaries(CountyRowsB)}

StateTables == {Boundaries(StateRowsA), Boundaries(StateRowsB)}

\* Positions of the rows of a table whose geometry intersects geom, in order.
RECURSIVE mask(_, _, _)
mask(rows, geom, i) ==
    IF i > Len(rows) THEN <<>>
    ELSE (IF shape_intersects(rows[i].geometry, geom) THEN <<i>> ELSE <<>>)
         \o mask(rows, geom, i + 1)

\* A buggy variant: hands out a frame that shares its data with the table.
Boundaries_intersects_view(df, geom) ==
    LET idx == mask(df.rows, geom, 1)
    IN  [shared |-> TRUE, index |-> df.index, idx |-> idx,
         rows |-> [k \in 1..Len(idx) |-> df.rows[idx[k]]]]

\* A buggy variant: keeps only the rows lying wholly inside geom.
Boundaries_intersects_within(df, geom) ==
    LET idx == SelectSeq(mask(df.rows, geom, 1),
                         LAMBDA i : df.rows[i].geometry \subseteq geom)
    IN  [shared |-> FALSE, index |-> df.index, idx |-> idx,
         rows |-> [k \in 1..Len(idx) |-> df.rows[idx[k]]]]

\* Boundaries.intersects: a copy of the table, restricted to the rows whose
\* geometry intersects geom.
Boundaries_intersects(df, geom) ==
    LET idx == mask(df.rows, geom, 1)
    IN  [shared |-> FALSE, index |-> df.index, idx |-> idx,
         rows |-> [k \in 1..Len(idx) |-> df.rows[idx[k]]]]

\* What a table holds after `frame` (taken from it) has had its STATEFP
\* column stripped and STATEFP made its index in place: nothing changes
\* unless the frame shares the table's data.
written_through(table, frame) ==
    IF frame.shared
    THEN [index |-> "STATEFP",
          rows |-> [i \in 1..Len(table.rows) |->
                      IF \E k \in 1..Len(frame.idx) : frame.idx[k] = i
                      THEN [table.rows[i] EXCEPT !.STATEFP = str_strip(@)]
                      ELSE table.rows[i]]]
    ELSE table

(* --------------------------- Region Resolver --------------------------- *)

\* An argument of get_counties_from_geometry is a record: its kind ("list",
\* "tuple", "geometry", or another type's name), its coordinates when it is
\* a list or tuple, its shape when it is a shapely geometry.

\* A buggy variant of the length test: only short lists are rejected.
bbox_len_invalid_short(geom) == Len(geom.coords) < 4

\* len(geom) != 4
bbox_len_invalid(geom) == Len(geom.coords) # 4

\* One county row joined with the states frame on the stripped STATEFP (a
\* left join: a county without a state keeps a missing state name).
join_row(c, srows) ==
    LET m == SelectSeq(srows, LAMBDA s : str_strip(s.STATEFP) = str_strip(c.STATEFP))
    IN  IF m = <<>>
        THEN << [county_name |-> c.NAME, state_name |-> "NaN",
                 geometry |-> c.geometry, COUNTYNS |-> c.COUNTYNS] >>
        ELSE [k \in 1..Len(m) |->
                [county_name |-> c.NAME, state_name |-> m[k].NAME,
                 geometry |-> c.geometry, COUNTYNS |-> c.COUNTYNS]]

RECURSIVE join(_, _)
join(crows, srows) ==
    IF crows = <<>> THEN <<>>
    ELSE join_row(Head(crows), srows) \o join(Tail(crows), srows)

RECURSIVE insert_sorted(_, _)
insert_sorted(r, sorted) ==
    IF sorted = <<>> THEN <<r>>
    ELSE IF r.COUNTYNS < Head(sorted).COUNTYNS THEN <<r>> \o sorted
    ELSE <<Head(sorted)>> \o insert_sorted(r, Tail(sorted))

\* DataFrame.sort_values(by=["COUNTYNS"]), rows with equal keys kept in order.
RECURSIVE sort_values(_)
sort_values(rows) ==
    IF rows = <<>> THEN <<>>
    ELSE insert_sorted(rows[Len(rows)], sort_values(SubSeq(rows, 1, Len(rows) - 1)))

\* get_counties_from_geometry.  The result names the outcome, the rows of the
\* returned frame, the boundary tables that were queried and what the two
\* tables hold afterwards.
get_counties_from_geometry(geom, ctab, stab) ==
    LET bad == [outcome |-> "ValueError", rows |-> <<>>, queried |-> {},
                counties |-> ctab, states |-> stab]
        resolve(shape) ==
            LET counties_df == Boundaries_intersects(ctab, shape)
            IN  IF Len(counties_df.rows) = 0
                THEN [outcome |-> "ok", rows |-> <<>>, queried |-> {"counties"},
                      counties |-> ctab, states |-> stab]
                ELSE LET states_df == Boundaries_intersects(stab, shape)
                     IN  [outcome |-> "ok",
                          rows |-> sort_values(join(counties_df.rows, states_df.rows)),
                          queried |-> {"counties", "states"},
                          counties |-> written_through(ctab, counties_df),
                          \* states_df[["STATEFP", "NAME"]] is a new frame:
                          \* the later writes never reach the states table
                          states |-> stab]
    IN  IF geom.kind \in {"list", "tuple"}
        THEN IF bbox_len_invalid(geom) THEN bad
             ELSE resolve(box(geom.coords[1], geom.coords[2],
                              geom.coords[3], geom.coords[4]))
        ELSE IF geom.kind # "geometry" THEN bad
        ELSE resolve(geom.shape)

(* ------------------------------ inputs --------------------------------- *)

\* Coordinate lists: every 4-element list over the grid, and one list of
\* every other length up to MaxBBoxLen.
BBoxes == [1..4 -> Coord] \cup {[i \in 1..n |-> 0] : n \in 0..MaxBBoxLen}

Shapes == {box(0, 0, 0, 0), box(1, 0, MaxCoord, 0), box(0, 0, MaxCoord, MaxCoord),
           box(MaxCoord, 0, MaxCoord, 0)}

Geoms ==
    {[kind |-> k, coords |-> b, shape |-> {}] : k \in {"list", "tuple"}, b \in BBoxes}
    \cup {[kind |-> "geometry", coords |-> <<>>, shape |-> s] : s \in Shapes}
    \cup {[kind |-> k, coords |-> <<>>, shape |-> {}] : k \in {"str", "NoneType", "dict"}}

(* ------------------------- Query List Builder ------------------------- *)

\* The value None, as an argument that is a geometry otherwise.
None == [kind |-> "NoneType", coords |-> <<>>, shape |-> {}]

\* A GeoJSON-style mapping handed in where a shapely geometry is expected.
GeoJSON == [kind |-> "dict", coords |-> <<>>, shape |-> {}]

geometry_of(s) == [kind |-> "geometry", coords |-> <<>>, shape |-> s]

\* Python truth value of an `intersects` argument.
truthy(v) == v.kind # "NoneType"

\* geometry.box(-179.9, 18.0, -66.9, 71.4): the default query area.  On the
\* grid it is the lower-left block; the column x = MaxCoord lies outside it.
USBox == box(0, 0, 1, MaxCoord)

\* geometry.box(*bbox): box takes minx, miny, maxx, maxy and an optional
\* fifth positional argument ccw; any other argument count is a TypeError.
box_star(bbox) ==
    IF Len(bbox) \in {4, 5}
    THEN [outcome |-> "ok",
          geom |-> geometry_of(box(bbox[1], bbox[2], bbox[3], bbox[4]))]
    ELSE [outcome |-> "TypeError", geom |-> None]

\* A datetime value and its year attribute.
Years == 2020..(2019 + MaxYearSpan)

\* The first day of each year.
Datetime == {[year |-> y, month |-> 1, day |-> 1] : y \in Years}

\* list(range(start_year, end_year + 1))
range_list(start_year, end_year) ==
    IF end_year < start_year THEN <<>>
    ELSE [i \in 1..(end_year - start_year + 1) |-> start_year + i - 1]

\* cql2_to_query_params(filter): a filter is modelled by the query parameters
\* it translates to.
NoFilter == [kind |-> "NoneType", params |-> <<>>]

Filters ==
    {NoFilter,
     [kind |-> "CQLFilter", params |-> [commodity_desc |-> "CORN"]],
     [kind |-> "CQLFilter", params |-> [county_name |-> "Kern", year |-> 1999]]}

cql2_to_query_params(filter) == filter.params

\* dict.update: the entries of `other` replace and extend those of `d`.
update(d, other) ==
    [k \in DOMAIN d \cup DOMAIN other |->
        IF k \in DOMAIN other THEN other[k] ELSE d[k]]

\* The inner loop over the years for one county row.  `obj` is the one
\* query_params dict made for the row: every pass writes year and
\* query_index into it and appends a reference to it (its row_index, which
\* identifies the object) to the list.
RECURSIVE year_loop(_, _, _, _, _)
year_loop(obj, refs, row_index, years_range, year_index) ==
    IF year_index >= Len(years_range) THEN [obj |-> obj, refs |-> refs]
    ELSE year_loop(
           update(obj, [year |-> years_range[year_index + 1],
                        query_index |-> row_index * Len(years_range) + year_index]),
           Append(refs, row_index), row_index, years_range, year_index + 1)

\* The outer loop over the rows of counties_gdf.reset_index(), from row_index
\* on.  heap holds the contents of each row's object (the object of row_index
\* i at position i + 1); refs is query_list.
\* years_range is a record: bound says whether the name was ever assigned.
RECURSIVE row_loop(_, _, _, _, _, _)
row_loop(rows, row_index, years_range, filter, heap, refs) ==
    IF row_index >= Len(rows) THEN [outcome |-> "ok", heap |-> heap, refs |-> refs]
    ELSE LET row == rows[row_index + 1]
             base == [county_name |-> row.county_name,
                      state_name |-> row.state_name,
                      sector |-> "CROPS"]
             query_params == IF filter.kind # "NoneType"
                             THEN update(base, cql2_to_query_params(filter))
                             ELSE base
         IN  IF ~years_range.bound
             THEN [outcome |-> "UnboundLocalError", heap |-> heap, refs |-> refs]
             ELSE LET y == year_loop(query_params, refs, row_index,
                                     years_range.value, 0)
                  IN  row_loop(rows, row_index + 1, years_range, filter,
                               Append(heap, y.obj), y.refs)

\* A buggy variant: the year list is read before the loop over the rows.
build_list_eager(rows, years_range, filter) ==
    IF ~years_range.bound
    THEN [outcome |-> "UnboundLocalError", heap |-> <<>>, refs |-> <<>>]
    ELSE row_loop(rows, 0, years_range, filter, <<>>, <<>>)

\* query_list = [] and the loops that fill it.
build_list(rows, years_range, filter) ==
    row_loop(rows, 0, years_range, filter, <<>>, <<>>)

\* create_query_list(bbox, datetime, intersects, filter).  query_list is the
\* returned list as a reader sees it after the call: each position shows the
\* present contents of the object it refers to.
create_query_list(bbox, datetime, intersects, filter, ctab, stab) ==
    LET fail(e, res) ==
            [outcome |-> e, query_list |-> <<>>, refs |-> <<>>,
             resolver |-> res.outcome, regions |-> res.rows,
             counties |-> res.counties, states |-> res.states]
        notcalled == [outcome |-> "not called", rows |-> <<>>,
                      counties |-> ctab, states |-> stab]
        g == IF bbox # <<>> THEN box_star(bbox)
             ELSE IF truthy(intersects) THEN [outcome |-> "ok", geom |-> intersects]
             ELSE [outcome |-> "ok", geom |-> geometry_of(USBox)]
    IN  IF g.outcome # "ok" THEN fail(g.outcome, notcalled)
        ELSE
        LET res == get_counties_from_geometry(g.geom, ctab, stab)
        IN  IF res.outcome # "ok" THEN fail(res.outcome, res)
            ELSE IF Len(datetime) = 1 THEN fail("IndexError", res)
            ELSE
            LET years_range ==
                    IF datetime # <<>>
                    THEN [bound |-> TRUE,
                          value |-> range_list(datetime[1].year, datetime[2].year)]
                    ELSE [bound |-> FALSE, value |-> <<>>]
                b == build_list(res.rows, years_range, filter)
            IN  IF b.outcome # "ok" THEN fail(b.outcome, res)
                ELSE [outcome |-> "ok",
                      query_list |-> [k \in 1..Len(b.refs) |-> b.heap[b.refs[k] + 1]],
                      refs |-> b.refs,
                      resolver |-> res.outcome, regions |-> res.rows,
                      counties |-> res.counties, states |-> res.states]

\* The datetime arguments: absent, a single value, a start/end pair.
Datetimes == {<<>>} \cup {<<d>> : d \in Datetime} \cup (Datetime \X Datetime)

Intersects == {None, GeoJSON} \cup {geometry_of(s) : s \in Shapes}

\* The (bbox, intersects) arguments: a bbox alone, intersects alone, neither,
\* and both together.
GeomArgs ==
    {<<b, None>> : b \in BBoxes}
    \cup {<<<<>>, i>> : i \in Intersects}
    \cup {<<<<MaxCoord, 0, MaxCoord, 0>>, i>> : i \in Intersects}

(* -------------------- Remote Fetch & Normalization --------------------- *)

\* The names the class APIWrapperRemoteProvider defines.  It has no base
\* class and no __getattr__, so any other attribute of self is missing.
Methods ==
    {"__init__", "get_counties_from_geometry", "get_states_from_geometry",
     "create_query_list", "convert_results_to_gdf", "request_features",
     "search", "get_queryables_from_openapi", "queryables"}

Attributes == {"api_url", "max_page_size", "api_default_params"}

has_attribute(name) == name \in Methods \cup Attributes

\* gpd.GeoDataFrame(columns=["geometry", "id"])
EmptyTable == [columns |-> <<"geometry", "id">>, rows |-> <<>>]

\* A decoded JSON body: null, a number, a string, a list of records, or a
\* dict that may hold a list of records under "results".  A record is
\* modelled by the set of keys it has.
FullRecord == {"id", "Latitude", "Longitude", "UTC"}

RecordShapes == {FullRecord, FullRecord \ {"id"}, FullRecord \ {"UTC"}}

ItemLists == {<<>>} \cup {<<r>> : r \in RecordShapes}

Bodies ==
    {[t |-> "null", zero |-> TRUE, results_key |-> FALSE, items |-> <<>>],
     [t |-> "int", zero |-> TRUE, results_key |-> FALSE, items |-> <<>>],
     [t |-> "int", zero |-> FALSE, results_key |-> FALSE, items |-> <<>>],
     [t |-> "str", zero |-> TRUE, results_key |-> FALSE, items |-> <<>>],
     [t |-> "dict", zero |-> TRUE, results_key |-> FALSE, items |-> <<>>],
     [t |-> "dict", zero |-> FALSE, results_key |-> FALSE, items |-> <<>>]}
    \cup {[t |-> "list", zero |-> (l = <<>>), results_key |-> FALSE, items |-> l]
            : l \in ItemLists}
    \cup {[t |-> "dict", zero |-> FALSE, results_key |-> TRUE, items |-> l]
            : l \in ItemLists}

\* Python truth value of a decoded body: null, 0, "", [] and {} are false.
body_truthy(res) == ~res.zero

StatusCodes == {200, 404, 500}

Responses == [status_code : StatusCodes, json : Bodies]

\* The responses tried under search: each status with a null body, an empty
\* list and a list of one full record.
SearchResponses ==
    {h \in Responses : h.json.t \in {"null", "list"}
                        /\ \A i \in 1..Len(h.json.items) : h.json.items[i] = FullRecord}

\* convert_results_to_gdf(response).
convert_results_to_gdf(response) ==
    LET r == IF response.t = "dict"
             THEN \* response.get("results", [])
                  [t |-> "list", zero |-> (response.items = <<>>),
                   results_key |-> FALSE, items |-> response.items]
             ELSE response
    IN  IF r.t \in {"null", "int"}
        THEN \* len(response) of a value that has no length
             [outcome |-> "TypeError", table |-> EmptyTable]
        ELSE IF Len(r.items) = 0
        THEN [outcome |-> "ok", table |-> EmptyTable]
        ELSE IF \A i \in 1..Len(r.items) : "id" \notin r.items[i]
        THEN \* gdf.set_index("id") without such a column
             [outcome |-> "KeyError", table |-> EmptyTable]
        ELSE IF \A i \in 1..Len(r.items) : "UTC" \notin r.items[i]
        THEN \* gdf["UTC"] without such a column
             [outcome |-> "KeyError", table |-> EmptyTable]
        ELSE \* _datetime.strptime(x, format=...): strptime takes no keywords
             [outcome |-> "TypeError", table |-> EmptyTable]

\* request_features(**kwargs), with `http` the response the server gives to
\* the GET request if it is sent.
request_features(kwargs, http) ==
    IF ~has_attribute("parse_input_params")
    THEN \* self.parse_input_params: no such attribute
         [outcome |-> "AttributeError", table |-> EmptyTable, sent |-> FALSE]
    ELSE IF http.status_code = 200
    THEN \* the empty table made for a false body is overwritten by the
         \* conversion that follows it
         LET c == convert_results_to_gdf(http.json)
         IN  [outcome |-> c.outcome, table |-> c.table, sent |-> TRUE]
    ELSE [outcome |-> "ok", table |-> EmptyTable, sent |-> TRUE]

(* --------------------------- Search Endpoint --------------------------- *)

\* self.max_page_size
max_page_size == 50000

\* Python values that are None or an integer.
NoneInt == [t |-> "NoneType", v |-> 0]

IntVal(n) == [t |-> "int", v |-> n]

Limits == {NoneInt, IntVal(0), IntVal(1), IntVal(0 - 1), IntVal(max_page_size),
           IntVal(max_page_size + 1)}

\* A pagination mapping is modelled by its entries (keys "page", "page_size").
Paginations ==
    {<<>>}
    \cup {[page |-> 2]}
    \cup {[page_size |-> n] : n \in {1, max_page_size, max_page_size + 1}}
    \cup {[page |-> 2, page_size |-> n] : n \in {1, max_page_size, max_page_size + 1}}

ProviderProperties ==
    {<<>>, [source_desc |-> "CENSUS"], [statisticcat_desc |-> "YIELD"]}

\* A buggy variant: a limit of 0 is taken as a literal limit.
limit_page_size_literal(limit) ==
    IF limit.t # "NoneType"
    THEN (IF limit.v <= max_page_size THEN limit.v ELSE max_page_size)
    ELSE max_page_size

\* page_size as the limit alone decides it.
limit_page_size(limit) ==
    LET l == IF limit.t = "int" /\ limit.v = 0 THEN NoneInt ELSE limit
    IN  IF l.t # "NoneType"
        THEN (IF l.v <= max_page_size THEN l.v ELSE max_page_size)
        ELSE max_page_size

\* dict.get(key, default)
get(d, key, default) == IF key \in DOMAIN d THEN d[key] ELSE default

\* search(pagination, provider_properties, limit=...).  page and page_size
\* are the values handed to request_features.
search(pagination, provider_properties, limit, http) ==
    LET page == IF pagination # <<>>
                THEN (IF "page" \in DOMAIN pagination
                      THEN IntVal(pagination["page"]) ELSE NoneInt)
                ELSE IntVal(1)
        page_size == IF pagination # <<>>
                     THEN get(pagination, "page_size", max_page_size)
                     ELSE limit_page_size(limit)
        kw0 == IF limit.t = "NoneType" THEN <<>> ELSE [limit |-> limit.v]
        kw1 == IF provider_properties # <<>>
               THEN update(kw0, [source_desc |->
                                   get(provider_properties, "source_desc", "SURVEY")])
               ELSE kw0
        kwargs == IF provider_properties # <<>>
                     /\ "statisticcat_desc" \in DOMAIN provider_properties
                  THEN update(kw1, [statisticcat_desc |->
                                      provider_properties["statisticcat_desc"]])
                  ELSE kw1
        f == request_features(update(kwargs, [page |-> page, page_size |-> page_size]),
                              http)
        out(e, token) ==
            [outcome |-> e, page |-> page, page_size |-> page_size,
             kwargs |-> kwargs, table |-> f.table, token |-> token]
    IN  IF f.outcome # "ok" THEN out(f.outcome, <<>>)
        ELSE IF page.t = "NoneType" THEN out("TypeError", <<>>)
        ELSE out("ok", [page |-> page.v + 1, page_size |-> page_size])

(* ------------------------------ actions -------------------------------- *)

Idle == [op |-> "idle"]

Init ==
    /\ counties \in CountyTables
    /\ states \in StateTables
    /\ call = Idle
    /\ ret = [outcome |-> "none"]

GetCountiesFromGeometry ==
    /\ call = Idle
    /\ \E geom \in Geoms :
         LET r == get_counties_from_geometry(geom, counties, states)
         IN  /\ call' = [op |-> "get_counties_from_geometry", geom |-> geom]
             /\ ret' = [outcome |-> r.outcome, rows |-> r.rows, queried |-> r.queried]
             /\ counties' = r.counties
             /\ states' = r.states

CreateQueryList ==
    /\ call = Idle
    /\ \E ga \in GeomArgs, datetime \in Datetimes, filter \in Filters :
         LET r == create_query_list(ga[1], datetime, ga[2], filter, counties, states)
         IN  /\ call' = [op |-> "create_query_list", bbox |-> ga[1],
                         datetime |-> datetime, intersects |-> ga[2],
                         filter |-> filter]
             /\ ret' = [outcome |-> r.outcome, query_list |-> r.query_list,
                        refs |-> r.refs, resolver |-> r.resolver,
                        regions |-> r.regions]
             /\ counties' = r.counties
             /\ states' = r.states

ConvertResultsToGdf ==
    /\ call = Idle
    /\ \E response \in Bodies :
         LET r == convert_results_to_gdf(response)
         IN  /\ call' = [op |-> "convert_results_to_gdf", response |-> response]
             /\ ret' = [outcome |-> r.outcome, table |-> r.table]
    /\ UNCHANGED <<counties, states>>

RequestFeatures ==
    /\ call = Idle
    /\ \E http \in Responses, page_size \in {1, max_page_size} :
         LET r == request_features([page |-> IntVal(1), page_size |-> page_size], http)
         IN  /\ call' = [op |-> "request_features", page_size |-> page_size,
                         http |-> http]
             /\ ret' = [outcome |-> r.outcome, table |-> r.table, sent |-> r.sent]
    /\ UNCHANGED <<counties, states>>

Search ==
    /\ call = Idle
    /\ \E pagination \in Paginations, pp \in ProviderProperties,
          limit \in Limits, http \in SearchResponses :
         LET r == search(pagination, pp, limit, http)
         IN  /\ call' = [op |-> "search", pagination |-> pagination,
                         provider_properties |-> pp, limit |-> limit,
                         http |-> http]
             /\ ret' = r
    /\ UNCHANGED <<counties, states>>

\* The caller takes the result (or the exception) and the provider object is
\* ready for the next call.
Respond ==
    /\ call # Idle
    /\ call' = Idle
    /\ ret' = [outcome |-> "none"]
    /\ UNCHANGED <<counties, states>>

Next ==
    \/ GetCountiesFromGeometry
    \/ CreateQueryList
    \/ ConvertResultsToGdf
    \/ RequestFeatures
    \/ Search
    \/ Respond

Spec == Init /\ [][Next]_vars

(* ------------------------------ claims --------------------------------- *)

\* The years a start/end pair names.
years_of(datetime) == range_list(datetime[1].year, datetime[2].year)

\* The shape a valid resolver argument stands for.
shape_of(geom) ==
    IF geom.kind = "geometry" THEN geom.shape
    ELSE box(geom.coords[1], geom.coords[2], geom.coords[3], geom.coords[4])

valid_geom(geom) ==
    \/ geom.kind = "geometry"
    \/ geom.kind \in {"list", "tuple"} /\ Len(geom.coords) = 4

\* C1: for a start/end pair with start year <= end year, the list returned by
\* create_query_list has N*Y entries and, for each (resolved region, year)
\* pair, exactly one entry carries the region's county_name and state_name
\* together with that year.
C1_OneEntryPerRegionYear ==
    (/\ call.op = "create_query_list"
     /\ ret.outcome = "ok"
     /\ Len(call.datetime) = 2
     /\ call.datetime[1].year <= call.datetime[2].year)
    => LET ql == ret.query_list
           yrs == years_of(call.datetime)
       IN  /\ Len(ql) = Len(ret.regions) * Len(yrs)
           /\ \A i \in 1..Len(ret.regions), j \in 1..Len(yrs) :
                Cardinality({k \in 1..Len(ql) :
                               /\ ql[k].county_name = ret.regions[i].county_name
                               /\ ql[k].state_name = ret.regions[i].state_name
                               /\ ql[k].year = yrs[j]}) = 1

\* C2: in the list returned by create_query_list, read after the call, the
\* entry at 0-based position k has query_index = k.
C2_QueryIndexIsPosition ==
    (call.op = "create_query_list" /\ ret.outcome = "ok")
    => \A k \in 1..Len(ret.query_list) : ret.query_list[k].query_index = k - 1

\* C3: for a 4-element bounding box or a geometry object,
\* get_counties_from_geometry returns without error exactly the counties of
\* the county table whose stored geometry intersects the input.
C3_ExactlyIntersectingCounties ==
    (call.op = "get_counties_from_geometry" /\ valid_geom(call.geom))
    => /\ ret.outcome = "ok"
       /\ {<<ret.rows[k].COUNTYNS, ret.rows[k].county_name, ret.rows[k].geometry>>
             : k \in 1..Len(ret.rows)}
          = {<<c.COUNTYNS, c.NAME, c.geometry>>
               : c \in {counties.rows[i] : i \in
                          {n \in 1..Len(counties.rows) :
                             counties.rows[n].geometry \cap shape_of(call.geom) # {}}}}

\* A box that meets some counties and misses others has been resolved.
C3_Witness ==
    /\ call.op = "get_counties_from_geometry"
    /\ call.geom.kind = "list"
    /\ ret.outcome = "ok"
    /\ ret.rows # <<>>
    /\ \E i \in 1..Len(counties.rows) :
         \A k \in 1..Len(ret.rows) : ret.rows[k].COUNTYNS # counties.rows[i].COUNTYNS

\* C4: a list or tuple whose length is not 4, or a value that is neither a
\* list/tuple nor a geometry, ends get_counties_from_geometry in ValueError
\* with no boundary table queried and no result.
C4_InvalidGeomIsValueError ==
    (call.op = "get_counties_from_geometry" /\ ~valid_geom(call.geom))
    => /\ ret.outcome = "ValueError"
       /\ ret.queried = {}
       /\ ret.rows = <<>>

\* A 5-element list has been rejected.
C4_Witness ==
    /\ call.op = "get_counties_from_geometry"
    /\ call.geom.kind = "list"
    /\ Len(call.geom.coords) = 5
    /\ ret.outcome = "ValueError"

\* C5: when the HTTP response has a status other than 200, or status 200 with
\* a false body, request_features returns an empty feature table and no
\* exception escapes.
C5_EmptyTableNoException ==
    (/\ call.op = "request_features"
     /\ (call.http.status_code # 200 \/ ~body_truthy(call.http.json)))
    => ret.outcome = "ok" /\ ret.table = EmptyTable

\* C6: the page size search passes to request_features and returns in the
\* continuation token never exceeds max_page_size.
C6_PageSizeBounded ==
    call.op = "search"
    => /\ ret.page_size <= max_page_size
       /\ ret.outcome = "ok" => ret.token.page_size <= max_page_size

C8_NoRegionsEmptyList ==
    (/\ call.op = "create_query_list"
     /\ ret.resolver = "ok"
     /\ ret.regions = <<>>
     /\ Len(call.datetime) \in {0, 2})
    => ret.outcome = "ok" /\ ret.query_list = <<>>

\* No region was resolved, no datetime was given, a filter was.
C8_Witness ==
    /\ call.op = "create_query_list"
    /\ ret.resolver = "ok"
    /\ ret.regions = <<>>
    /\ call.datetime = <<>>
    /\ call.filter # NoFilter
    /\ ret.outcome = "ok"

\* C9: create_query_list with a non-empty bbox list whose length is not 4
\* fails with ValueError and returns no query list.
C9_MalformedBBoxIsValueError ==
    (/\ call.op = "create_query_list"
     /\ call.bbox # <<>>
     /\ Len(call.bbox) # 4)
    => ret.outcome = "ValueError"

\* C10: no call changes the two boundary tables.
C10_TablesUnchanged ==
    [][counties' = counties /\ states' = states]_vars

\* The resolver has stripped and re-indexed a padded STATEFP of a county it
\* returned.
C10_Witness ==
    /\ call.op = "get_counties_from_geometry"
    /\ ret.outcome = "ok"
    /\ \E i \in 1..Len(counties.rows) :
         /\ str_strip(counties.rows[i].STATEFP) # counties.rows[i].STATEFP
         /\ \E k \in 1..Len(ret.rows) :
              ret.rows[k].COUNTYNS = counties.rows[i].COUNTYNS

====
